---- MODULE Spec2Model ----
(***************************************************************************)
(* The OAuth2 credential subsystem of mcp-tools (google_service.go):       *)
(* GoogleService.Initialize / authenticate / startLocalServer, the         *)
(* callback handler registered on the process-wide request multiplexer,    *)
(* the credential store (authToken, client, mu), GetClient and the         *)
(* background loop refreshTokenPeriodically / refreshToken.                *)
(*                                                                         *)
(* Time is a discrete clock `now`; one tick is thirty seconds.             *)
(***************************************************************************)
EXTENDS Integers, Sequences, FiniteSets, TLC

\* ---------------------------------------------------------------- bounds
MaxTime == 5
MaxCalls == 2
MaxReqs == 2
MaxReaders == 2
MaxTokens == 2
MaxPgCalls == 2
MaxHandles == 2
MaxPathLen == 2

\* ------------------------------------------------------ program constants
\* 5*time.Minute, in ticks of thirty seconds
Margin == 10
\* time.After(2 * time.Minute), in ticks
AuthTimeout == 4
\* unbuffered channels, make(chan string)
Unbuffered == 1 - 1

\* make(chan ..., 1)
ChanCap == 1

Calls == 1..MaxCalls
\* the value of a `state` query parameter that no nonce equals
Forged == -1
\* `code` query parameters: absent, or a code
Codes == {"", "c"}
\* expires_in of a token response, in ticks: 30 s, and 5 min 30 s
Lifetimes == {1, Margin + 1}
\* the ctx of a call is not cancelled
NotCancelled == -1
\* a token response without expires_in: the token gets the zero time.Time as
\* its expiry
NoExpiresIn == 0
\* the zero time.Time (year 1), further back than a time.Duration can span
ZeroTime == -100
\* time.Duration is a signed integer of fixed width (int64 nanoseconds, about
\* 292 years); here 7 bits of ticks
DurationBits == 7
MinDuration == -(2 ^ (DurationBits - 1))
MaxDuration == 2 ^ (DurationBits - 1) - 1

\* the fields of GoogleConfig
Fields == {"ClientID", "ClientSecret", "Scopes", "RedirectURL", "AuthServerPort"}
\* configurations: complete, or with one field empty
Configs == {{}} \cup {{f} : f \in Fields}

\* calls of the PostgreSQL tool handler
PgCalls == 1..MaxPgCalls
\* database identifiers, in the order os.Environ() lists their <NAME>_DB_HOST
DBOrder == <<"test_db", "other_db">>
DBNames == {DBOrder[i] : i \in 1..Len(DBOrder)}
\* the operations of the input schema
Operations == {"query", "explain", "schema", "list_databases"}
\* the inputs of the handler: any operation, the database, query and table
\* given or left out
PgInputs == [operation : Operations \cup {"invalid_operation"},
             database : {"", "test_db"},
             query : {"", "q"},
             table : {"", "t"}]
NoInput == [operation |-> "", database |-> "", query |-> "", table |-> ""]
\* mcp.CallToolResult{} and a nil error
NoResult == [content |-> "", err |-> ""]

\* names of files and directories
FsNames == {"a", "t.txt", "t.exe"}
\* the elements of a path given to the file system tool
FsComponents == FsNames \cup {".."}
\* paths, as sequences of elements
FsPaths == UNION {[1..k -> FsComponents] : k \in 0..MaxPathLen}
\* the paths of the file system below the root
FsNodes == UNION {[1..k -> FsNames] : k \in 1..MaxPathLen}
\* FileSystemConfig: AllowedDirectory "/a", BlockedPatterns "*.exe", "*.dll"
AllowedDirectory == <<"a">>
BlockedPatterns == {"exe", "dll"}
\* the working directory of the process
Cwd == <<"a">>
\* the operations of the switch of the handler
FsOperations == {"list", "tree", "read", "write", "create", "delete", "mkdir", "search"}
\* the inputs of the handler: the path is rooted ("/...") or relative
FsInputs == {in \in [operation : FsOperations \cup {"chmod"},
                      path : FsPaths,
                      rooted : BOOLEAN,
                      recursive : BOOLEAN] : in.rooted \/ Len(in.path) < MaxPathLen}
NoReq == [operation |-> "", path |-> <<>>, rooted |-> TRUE, recursive |-> FALSE]
\* mcp.CallToolResult{} and a nil error
NoFsResult == [isError |-> FALSE, err |-> ""]

\* a nil *oauth2.Token
NoToken == [id |-> 0, expiry |-> 0, refresh |-> FALSE]

VARIABLES
    now,        \* the clock
    panicked,   \* the process died in a panic
    muxOwner,   \* the call whose handler is registered for "/" on http.DefaultServeMux (0: none)
    portOwner,  \* the call whose server holds the callback port (0: free)
    pc,         \* per Initialize call: where it is
    nonce,      \* per call: the `state` of authenticate
    codeChan,   \* per call: buffered contents of codeChan
    errorChan,  \* per call: buffered contents of errorChan
    first,      \* per call: the first event of its select (a message sent, or the deadline)
    inShutdown, \* per call: server.Close() was called
    srvPc,      \* per call: where the ListenAndServe goroutine is
    result,     \* per call: what startLocalServer returned
    token,      \* per call: the token of oauth2Cfg.Exchange, while authenticate runs
    reqs,       \* the callback requests so far, each with its handler's position
    authToken,  \* s.authToken
    client,     \* s.client: the id of the token it was built from (0: nil)
    muWriter,   \* s.mu is held exclusively
    muReaders,  \* the number of GetClient calls holding s.mu shared
    rdPc,       \* where the one GetClient call that is followed is
    completed,  \* the id of the token of the latest completed store update
    nextId,     \* the next token the provider issues
    loopPc,     \* per call: where the refresh loop it started is
    loopExp,    \* per loop: the expiry it read
    loopArmed,  \* per loop: when it armed time.After
    loopWake,   \* per loop: when time.After fires
    loopCur,    \* per loop: currentToken of refreshToken
    loopNew,    \* per loop: newToken of refreshToken
    failed,     \* per loop: a refreshToken call of the loop has failed
    loopErr,    \* per loop: what its latest refreshToken call returned ("": nil)
    config,     \* the fields of the GoogleConfig given to NewGoogleService that are empty
    cancelledAt, \* per call: when the ctx given to Initialize was cancelled (NotCancelled: not)
    pgEnv,      \* the databases configured in the environment (<NAME>_DB_HOST)
    connPool,   \* p.connPool: per database name the pooled handle (0: no entry)
    nextHandle, \* the next handle sql.Open makes
    pgPc,       \* per call of the PostgreSQL tool handler: where it is
    pgInput,    \* per call: the unmarshalled input
    pgDb,       \* per call: the handle getConnection holds (0: none)
    pgRes,      \* per call: what the handler returned
    fsTree,     \* the file system: per path what is there ("none", "file", "dir")
    fsPc,       \* where the call of the file system tool handler is
    fsReq,      \* the input of the call of the file system tool handler
    fsRes,      \* what that call returned
    fsTouched   \* the paths that call handed to functions of package os

vars == <<now, panicked, muxOwner, portOwner, pc, nonce, codeChan, errorChan,
          first, inShutdown, srvPc, result, token, reqs, authToken, client,
          muWriter, muReaders, rdPc, completed, nextId, loopPc,
          loopExp, loopArmed, loopWake, loopCur, loopNew, failed, loopErr, config,
          cancelledAt,
          pgEnv, connPool, nextHandle, pgPc, pgInput, pgDb, pgRes,
          fsTree, fsPc, fsReq, fsRes, fsTouched>>

\* the variables of the credential subsystem
oauthVars == <<now, panicked, muxOwner, portOwner, pc, nonce, codeChan, errorChan,
               first, inShutdown, srvPc, result, token, reqs, authToken, client,
               muWriter, muReaders, rdPc, completed, nextId, loopPc,
               loopExp, loopArmed, loopWake, loopCur, loopNew, failed, loopErr, config,
               cancelledAt>>

\* the variables of the PostgreSQL tool
pgVars == <<pgEnv, connPool, nextHandle, pgPc, pgInput, pgDb, pgRes>>

\* the variables of the file system tool
fsVars == <<fsTree, fsPc, fsReq, fsRes, fsTouched>>

authVars == <<pc, nonce, result, token>>
srvVars == <<muxOwner, portOwner, inShutdown, srvPc>>
chanVars == <<codeChan, errorChan, first>>
storeVars == <<authToken, client, muWriter, completed>>
rdVars == <<muReaders, rdPc>>
loopVars == <<loopPc, loopExp, loopArmed, loopWake, loopCur, loopNew, failed, loopErr>>

\* NewGoogleService(config): the service keeps the configuration as it is
\* given and holds no token and no client
NewGoogleService(c) ==
    /\ config = c
    /\ cancelledAt = [a \in Calls |-> NotCancelled]
    /\ now = 0
    /\ panicked = FALSE
    /\ muxOwner = 0
    /\ portOwner = 0
    /\ pc = [a \in Calls |-> "idle"]
    /\ nonce = [a \in Calls |-> 0]
    /\ codeChan = [a \in Calls |-> <<>>]
    /\ errorChan = [a \in Calls |-> <<>>]
    /\ first = [a \in Calls |-> "none"]
    /\ inShutdown = [a \in Calls |-> FALSE]
    /\ srvPc = [a \in Calls |-> "none"]
    /\ result = [a \in Calls |-> "none"]
    /\ token = [a \in Calls |-> NoToken]
    /\ reqs = <<>>
    /\ authToken = NoToken
    /\ client = 0
    /\ muWriter = FALSE
    /\ muReaders = 0
    /\ rdPc = "idle"
    /\ completed = 0
    /\ nextId = 1
    /\ loopPc = [a \in Calls |-> "off"]
    /\ loopExp = [a \in Calls |-> 0]
    /\ loopArmed = [a \in Calls |-> 0]
    /\ loopWake = [a \in Calls |-> 0]
    /\ loopCur = [a \in Calls |-> NoToken]
    /\ loopNew = [a \in Calls |-> NoToken]
    /\ failed = [a \in Calls |-> FALSE]
    /\ loopErr = [a \in Calls |-> ""]

\* NewPostgreSQL: an empty connPool; env is what the environment configures
NewPostgreSQL(env) ==
    /\ pgEnv = env
    /\ connPool = [d \in DBNames |-> 0]
    /\ nextHandle = 1
    /\ pgPc = [c \in PgCalls |-> "idle"]
    /\ pgInput = [c \in PgCalls |-> NoInput]
    /\ pgDb = [c \in PgCalls |-> 0]
    /\ pgRes = [c \in PgCalls |-> NoResult]

\* NewFileSystem, on a file system with /a/t.txt, /a/t.exe and /t.txt
NewFileSystem ==
    /\ fsTree = [q \in FsNodes |->
                    IF q = <<"a">> THEN "dir"
                    ELSE IF q \in {<<"a", "t.txt">>, <<"a", "t.exe">>, <<"t.txt">>} THEN "file"
                    ELSE "none"]
    /\ fsPc = "idle"
    /\ fsReq = NoReq
    /\ fsRes = NoFsResult
    /\ fsTouched = {}

\* the service is built from a complete configuration
Init == NewGoogleService({}) /\ NewPostgreSQL({}) /\ NewFileSystem

\* the service is built from any configuration
InitConfig == (\E c \in Configs : NewGoogleService(c)) /\ NewPostgreSQL({}) /\ NewFileSystem

\* the PostgreSQL tool in any environment
InitPg ==
    NewGoogleService({}) /\ (\E env \in SUBSET DBNames : NewPostgreSQL(env)) /\ NewFileSystem

\* ------------------------------------------------------------- helpers

Max(x, y) == IF x >= y THEN x ELSE y

\* the deadline of the select of startLocalServer: the call starts, registers
\* and arms time.After within one tick
Deadline(a) == nonce[a] + AuthTimeout

\* a Client that gives no client
ClientNil(tok) == 0 * tok.id

\* s.oauth2Cfg.Client(ctx, tok): the client is bound to the token
Client(tok) == tok.id

\* server.Close(): the server is marked shut down and a listener it tracks is
\* closed, which ends a running Serve with ErrServerClosed; a listener the
\* goroutine has bound but not yet handed to Serve is not tracked
CloseSrvPc(a) == IF srvPc[a] = "serving" THEN "exited" ELSE srvPc[a]

\* a Close that leaves the listener open
ClosePortLeak(a) == portOwner

ClosePort(a) == IF srvPc[a] = "serving" /\ portOwner = a THEN 0 ELSE portOwner

\* a return path without the deferred Close
ServerCloseMissing(a) == UNCHANGED <<inShutdown, srvPc, portOwner, muxOwner>>

ServerClose(a) ==
    /\ inShutdown' = [inShutdown EXCEPT ![a] = TRUE]
    /\ srvPc' = [srvPc EXCEPT ![a] = CloseSrvPc(a)]
    /\ portOwner' = ClosePort(a)
    /\ UNCHANGED muxOwner

\* ------------------------------------------- Initialize .. startLocalServer
\* a registration that never collides with an earlier one
RegisterPrivate(a) ==
    /\ muxOwner' = a
    /\ srvPc' = [srvPc EXCEPT ![a] = "check"]
    /\ pc' = [pc EXCEPT ![a] = "enter"]
    /\ UNCHANGED panicked

\* Initialize: authenticate draws the nonce from the clock, startLocalServer
\* makes the channels and the server, registers the handler with
\* http.HandleFunc("/") and starts the ListenAndServe goroutine.  A second
\* registration of "/" on the DefaultServeMux panics.
Register(a) ==
    IF muxOwner # 0
    THEN /\ panicked' = TRUE
         /\ pc' = [pc EXCEPT ![a] = "panic"]
         /\ UNCHANGED <<muxOwner, srvPc>>
    ELSE /\ muxOwner' = a
         /\ srvPc' = [srvPc EXCEPT ![a] = "check"]
         /\ pc' = [pc EXCEPT ![a] = "enter"]
         /\ UNCHANGED panicked

Initialize(a) ==
    /\ ~panicked
    /\ pc[a] = "idle"
    /\ \A b \in Calls : b < a => pc[b] # "idle"
    /\ nonce' = [nonce EXCEPT ![a] = now]
    /\ Register(a)
    /\ UNCHANGED <<now, portOwner, inShutdown, result, token, reqs,
                   chanVars, storeVars, nextId, config, cancelledAt, pgVars, fsVars, rdVars, loopVars>>

\* ------------------------------------------------------- the two channels
\* a send that never finds the receiver waiting
BlockedNever(a) == FALSE

\* the goroutine of startLocalServer is parked in its select: nothing was
\* ready when it came to the select, and nothing was sent to it since
Blocked(a) == pc[a] = "select"

\* the first event of the listener is remembered
First(a, msg) == first' = [first EXCEPT ![a] = IF @ = "none" THEN msg ELSE @]

\* a case of the select is chosen: the goroutine of startLocalServer will
\* return msg
Chosen(a, msg) ==
    /\ result' = [result EXCEPT ![a] = msg]
    /\ pc' = [pc EXCEPT ![a] = "woken"]

\* errorChan <- err: a send to a receiver parked in the select is handed to it
\* and chooses the case; otherwise the send waits for room in the buffer
SendError(a, msg) ==
    /\ First(a, msg)
    /\ IF Blocked(a)
       THEN /\ Chosen(a, msg)
            /\ UNCHANGED errorChan
       ELSE /\ Len(errorChan[a]) < ChanCap
            /\ errorChan' = [errorChan EXCEPT ![a] = Append(@, msg)]
            /\ UNCHANGED <<pc, result>>

\* codeChan <- code
SendCode(a, code) ==
    /\ First(a, "code")
    /\ IF Blocked(a)
       THEN /\ Chosen(a, "code")
            /\ UNCHANGED codeChan
       ELSE /\ Len(codeChan[a]) < ChanCap
            /\ codeChan' = [codeChan EXCEPT ![a] = Append(@, code)]
            /\ UNCHANGED <<pc, result>>

\* ------------------------------------------------ the ListenAndServe goroutine
\* ListenAndServe returns ErrServerClosed at once when the server is shut down
SrvCheck(a) ==
    /\ ~panicked
    /\ srvPc[a] = "check"
    /\ srvPc' = [srvPc EXCEPT ![a] = IF inShutdown[a] THEN "exited" ELSE "bind"]
    /\ UNCHANGED <<now, panicked, muxOwner, portOwner, inShutdown, authVars, reqs,
                   chanVars, storeVars, nextId, config, cancelledAt, pgVars, fsVars, rdVars, loopVars>>

\* net.Listen binds the port
SrvBind(a) ==
    /\ ~panicked
    /\ srvPc[a] = "bind"
    /\ portOwner = 0
    /\ portOwner' = a
    /\ srvPc' = [srvPc EXCEPT ![a] = "track"]
    /\ UNCHANGED <<now, panicked, muxOwner, inShutdown, authVars, reqs,
                   chanVars, storeVars, nextId, config, cancelledAt, pgVars, fsVars, rdVars, loopVars>>

\* net.Listen fails (the port is held, by this process or another one)
SrvBindFail(a) ==
    /\ ~panicked
    /\ srvPc[a] = "bind"
    /\ srvPc' = [srvPc EXCEPT ![a] = "sendErr"]
    /\ UNCHANGED <<now, panicked, muxOwner, portOwner, inShutdown, authVars, reqs,
                   chanVars, storeVars, nextId, config, cancelledAt, pgVars, fsVars, rdVars, loopVars>>

\* errorChan <- err, a blocking send
SrvSendErr(a) ==
    /\ ~panicked
    /\ srvPc[a] = "sendErr"
    /\ SendError(a, "listen")
    /\ srvPc' = [srvPc EXCEPT ![a] = "exited"]
    /\ UNCHANGED <<now, panicked, muxOwner, portOwner, inShutdown, nonce, token, reqs,
                   codeChan, storeVars, nextId, config, cancelledAt, pgVars, fsVars, rdVars, loopVars>>

\* Serve: a server found shut down closes the listener it was given and
\* returns ErrServerClosed; otherwise it starts to accept requests
SrvServe(a) ==
    /\ ~panicked
    /\ srvPc[a] = "track"
    /\ srvPc' = [srvPc EXCEPT ![a] = IF inShutdown[a] THEN "exited" ELSE "serving"]
    /\ portOwner' = IF inShutdown[a] THEN 0 ELSE portOwner
    /\ UNCHANGED <<now, panicked, muxOwner, inShutdown, authVars, reqs,
                   chanVars, storeVars, nextId, config, cancelledAt, pgVars, fsVars, rdVars, loopVars>>

\* ------------------------------------------------------ the callback handler
\* a handler that does not compare the state with the nonce
HandlerStepNoCheck(a, st, code) == IF code = "" THEN "sendNoCode" ELSE "sendCode"

\* a handler that looks at the code before it compares the state
HandlerStepCodeFirst(a, st, code) ==
    IF code = "" THEN "sendNoCode"
    ELSE IF st # nonce[a] THEN "sendInvalid"
    ELSE "sendCode"

\* what the handler does with a request before its channel send: the state is
\* compared first, then the code
HandlerStep(a, st, code) ==
    IF st # nonce[a] THEN "sendInvalid"
    ELSE IF code = "" THEN "sendNoCode"
    ELSE "sendCode"

\* the response written before the send: the 200 page precedes codeChan <- code,
\* the 400 of the error branches follows the send
RespBefore(step) == IF step = "sendCode" THEN 200 ELSE 0

\* a request reaches the serving server and is routed to the registered handler
Request(a, st, code) ==
    /\ ~panicked
    /\ srvPc[a] = "serving"
    /\ muxOwner = a
    /\ Len(reqs) < MaxReqs
    /\ reqs' = Append(reqs, [call |-> a, state |-> st, code |-> code,
                             pc |-> HandlerStep(a, st, code),
                             resp |-> RespBefore(HandlerStep(a, st, code))])
    /\ UNCHANGED <<now, panicked, srvVars, authVars, chanVars, storeVars, nextId, config, cancelledAt, pgVars, fsVars,
                   rdVars, loopVars>>

\* errorChan <- fmt.Errorf("invalid state parameter"); http.Error(.., 400)
HandlerSendInvalid(i) ==
    /\ ~panicked
    /\ reqs[i].pc = "sendInvalid"
    /\ SendError(reqs[i].call, "invalid state")
    /\ reqs' = [reqs EXCEPT ![i].pc = "done", ![i].resp = 400]
    /\ UNCHANGED <<now, panicked, srvVars, nonce, token, codeChan, storeVars, nextId, config, cancelledAt, pgVars, fsVars,
                   rdVars, loopVars>>

\* errorChan <- fmt.Errorf("no code received"); http.Error(.., 400)
HandlerSendNoCode(i) ==
    /\ ~panicked
    /\ reqs[i].pc = "sendNoCode"
    /\ SendError(reqs[i].call, "no code")
    /\ reqs' = [reqs EXCEPT ![i].pc = "done", ![i].resp = 400]
    /\ UNCHANGED <<now, panicked, srvVars, nonce, token, codeChan, storeVars, nextId, config, cancelledAt, pgVars, fsVars,
                   rdVars, loopVars>>

\* codeChan <- code
HandlerSendCode(i) ==
    /\ ~panicked
    /\ reqs[i].pc = "sendCode"
    /\ SendCode(reqs[i].call, reqs[i].code)
    /\ reqs' = [reqs EXCEPT ![i].pc = "done"]
    /\ UNCHANGED <<now, panicked, srvVars, nonce, token, errorChan, storeVars, nextId, config, cancelledAt, pgVars, fsVars,
                   rdVars, loopVars>>

\* --------------------------------------------- the select of startLocalServer
\* the select statement is reached with a code in codeChan: the case
\* code := <-codeChan can be chosen (among the ready cases the choice is free)
SelectCode(a) ==
    /\ ~panicked
    /\ pc[a] = "enter"
    /\ codeChan[a] # <<>>
    /\ codeChan' = [codeChan EXCEPT ![a] = Tail(@)]
    /\ Chosen(a, "code")
    /\ UNCHANGED <<now, panicked, srvVars, nonce, token, reqs, errorChan, first,
                   storeVars, nextId, config, cancelledAt, pgVars, fsVars, rdVars, loopVars>>

\* the select statement is reached with an error in errorChan: the case
\* err := <-errorChan can be chosen
SelectError(a) ==
    /\ ~panicked
    /\ pc[a] = "enter"
    /\ errorChan[a] # <<>>
    /\ errorChan' = [errorChan EXCEPT ![a] = Tail(@)]
    /\ Chosen(a, Head(errorChan[a]))
    /\ UNCHANGED <<now, panicked, srvVars, nonce, token, reqs, codeChan, first,
                   storeVars, nextId, config, cancelledAt, pgVars, fsVars, rdVars, loopVars>>

\* the select statement is reached with no case ready (the timer of
\* time.After has just been armed): the goroutine parks
SelectBlock(a) ==
    /\ ~panicked
    /\ pc[a] = "enter"
    /\ codeChan[a] = <<>>
    /\ errorChan[a] = <<>>
    /\ pc' = [pc EXCEPT ![a] = "select"]
    /\ UNCHANGED <<now, panicked, srvVars, nonce, result, token, reqs, chanVars,
                   storeVars, nextId, config, cancelledAt, pgVars, fsVars, rdVars, loopVars>>

\* case <-time.After(2 * time.Minute): the timer fires into the parked select
SelectTimeout(a) ==
    /\ ~panicked
    /\ Blocked(a)
    /\ now >= Deadline(a)
    /\ First(a, "timeout")
    /\ Chosen(a, "timeout")
    /\ UNCHANGED <<now, panicked, srvVars, nonce, token, reqs, codeChan, errorChan,
                   storeVars, nextId, config, cancelledAt, pgVars, fsVars, rdVars, loopVars>>

\* the chosen case returns: return code, nil or return "", err, and the
\* deferred server.Close() runs; authenticate and Initialize wrap an error
SelectReturn(a) ==
    /\ ~panicked
    /\ pc[a] = "woken"
    /\ pc' = [pc EXCEPT ![a] = IF result[a] = "code" THEN "exchange" ELSE "failed"]
    /\ ServerClose(a)
    /\ UNCHANGED <<now, panicked, nonce, result, token, reqs, chanVars, storeVars,
                   nextId, config, cancelledAt, pgVars, fsVars, rdVars, loopVars>>

\* ------------------------------------------------------------- the contexts
\* <-ctx.Done() is ready for the ctx the caller gave to Initialize(ctx)
Done(a) == cancelledAt[a] # NotCancelled

\* a refresh loop that is given the ctx of Initialize
LoopCtxDoneOfInitialize(a) == Done(a)

\* <-ctx.Done() is ready for the ctx of the refresh loop of call a, which is
\* context.Background(): never
LoopCtxDone(a) == FALSE

\* the caller cancels the ctx it gave to Initialize
Cancel(a) ==
    /\ ~panicked
    /\ pc[a] # "idle"
    /\ ~Done(a)
    /\ cancelledAt' = [cancelledAt EXCEPT ![a] = now]
    /\ UNCHANGED <<now, panicked, srvVars, authVars, reqs, chanVars, storeVars,
                   nextId, config, pgVars, fsVars, rdVars, loopVars>>

\* --------------------------------------------------- authenticate, continued
\* the expiry of a token got at time t: t + expires_in, or the zero time when
\* the response has no expires_in
Expiry(t, life) == IF life = NoExpiresIn THEN ZeroTime ELSE t + life

\* token, err := s.oauth2Cfg.Exchange(ctx, authCode) succeeds (its request is
\* made with ctx, and fails when ctx is cancelled)
ExchangeOK(a, life, rt) ==
    /\ ~panicked
    /\ pc[a] = "exchange"
    /\ ~Done(a)
    /\ nextId <= MaxTokens
    /\ token' = [token EXCEPT ![a] = [id |-> nextId, expiry |-> Expiry(now, life), refresh |-> rt]]
    /\ nextId' = nextId + 1
    /\ pc' = [pc EXCEPT ![a] = "lock"]
    /\ UNCHANGED <<now, panicked, srvVars, nonce, result, reqs, chanVars,
                   storeVars, rdVars, loopVars, config, cancelledAt, pgVars, fsVars>>

\* an authenticate that goes on after a failed Exchange
ExchangeFailIgnored(a) ==
    /\ ~panicked
    /\ pc[a] = "exchange"
    /\ pc' = [pc EXCEPT ![a] = "lock"]
    /\ UNCHANGED <<now, panicked, srvVars, nonce, result, token, reqs,
                   chanVars, storeVars, nextId, config, cancelledAt, pgVars, fsVars, rdVars, loopVars>>

\* Exchange fails: authenticate and Initialize return the wrapped error
ExchangeFail(a) ==
    /\ ~panicked
    /\ pc[a] = "exchange"
    /\ pc' = [pc EXCEPT ![a] = "failed"]
    /\ UNCHANGED <<now, panicked, srvVars, nonce, result, token, reqs,
                   chanVars, storeVars, nextId, config, cancelledAt, pgVars, fsVars, rdVars, loopVars>>

\* a writer that does not wait for the readers to leave
AuthLockNoWait(a) ==
    /\ ~panicked
    /\ pc[a] = "lock"
    /\ ~muWriter
    /\ muWriter' = TRUE
    /\ pc' = [pc EXCEPT ![a] = "w1"]
    /\ UNCHANGED <<now, panicked, srvVars, nonce, result, token, reqs,
                   chanVars, authToken, client, completed, nextId, config, cancelledAt, pgVars, fsVars, rdVars, loopVars>>

\* s.mu.Lock()
AuthLock(a) ==
    /\ ~panicked
    /\ pc[a] = "lock"
    /\ ~muWriter
    /\ muReaders = 0
    /\ muWriter' = TRUE
    /\ pc' = [pc EXCEPT ![a] = "w1"]
    /\ UNCHANGED <<now, panicked, srvVars, nonce, result, token, reqs,
                   chanVars, authToken, client, completed, nextId, config, cancelledAt, pgVars, fsVars, rdVars, loopVars>>

\* s.authToken = token
AuthWriteToken(a) ==
    /\ ~panicked
    /\ pc[a] = "w1"
    /\ authToken' = token[a]
    /\ pc' = [pc EXCEPT ![a] = "w2"]
    /\ UNCHANGED <<now, panicked, srvVars, nonce, result, token, reqs,
                   chanVars, client, muWriter, completed, nextId, config, cancelledAt, pgVars, fsVars, rdVars, loopVars>>

\* s.client = s.oauth2Cfg.Client(ctx, token); s.mu.Unlock(); back in Initialize:
\* go s.refreshTokenPeriodically(context.Background()); return nil
AuthWriteClient(a) ==
    /\ ~panicked
    /\ pc[a] = "w2"
    /\ client' = Client(token[a])
    /\ muWriter' = FALSE
    /\ completed' = token[a].id
    /\ loopPc' = [loopPc EXCEPT ![a] = "top"]
    /\ pc' = [pc EXCEPT ![a] = "done"]
    /\ token' = [token EXCEPT ![a] = NoToken]
    /\ UNCHANGED <<now, panicked, srvVars, nonce, result, reqs,
                   chanVars, authToken, nextId, config, cancelledAt, pgVars, fsVars, rdVars, loopExp, loopArmed, loopWake,
                   loopCur, loopNew, failed, loopErr>>

\* ------------------------------------------------------------------ GetClient
\* a GetClient that reads without waiting for the writer to leave
GetClientRLockNoWait ==
    /\ ~panicked
    /\ muReaders < MaxReaders
    /\ muReaders' = muReaders + 1
    /\ UNCHANGED <<now, panicked, srvVars, authVars, reqs, chanVars, storeVars,
                   nextId, config, cancelledAt, pgVars, fsVars, loopVars, rdPc>>

\* s.mu.RLock(), by one more caller of GetClient
GetClientRLock ==
    /\ ~panicked
    /\ muReaders < MaxReaders
    /\ ~muWriter
    /\ muReaders' = muReaders + 1
    /\ UNCHANGED <<now, panicked, srvVars, authVars, reqs, chanVars, storeVars,
                   nextId, config, cancelledAt, pgVars, fsVars, loopVars, rdPc>>

\* the followed GetClient call holds s.mu shared (1) or not (0)
Followed == IF rdPc = "held" THEN 1 ELSE 0

\* return s.client, and the deferred s.mu.RUnlock(): the caller gets the
\* value `client` has in the state the call leaves
GetClientReturn ==
    /\ ~panicked
    /\ muReaders > Followed
    /\ muReaders' = muReaders - 1
    /\ UNCHANGED <<now, panicked, srvVars, authVars, reqs, chanVars, storeVars,
                   nextId, config, cancelledAt, pgVars, fsVars, loopVars, rdPc>>

\* one GetClient call followed from its call to its return.  It is called:
\* s.mu.RLock() is reached
FollowedCall ==
    /\ ~panicked
    /\ rdPc = "idle"
    /\ rdPc' = "rlock"
    /\ UNCHANGED <<now, panicked, srvVars, authVars, reqs, chanVars, storeVars,
                   nextId, config, cancelledAt, pgVars, fsVars, loopVars, muReaders>>

\* s.mu.RLock() of the followed call is granted
FollowedRLock ==
    /\ ~panicked
    /\ rdPc = "rlock"
    /\ ~muWriter
    /\ muReaders' = muReaders + 1
    /\ rdPc' = "held"
    /\ UNCHANGED <<now, panicked, srvVars, authVars, reqs, chanVars, storeVars,
                   nextId, config, cancelledAt, pgVars, fsVars, loopVars>>

\* return s.client and the deferred s.mu.RUnlock() of the followed call
FollowedReturn ==
    /\ ~panicked
    /\ rdPc = "held"
    /\ muReaders' = muReaders - 1
    /\ rdPc' = "idle"
    /\ UNCHANGED <<now, panicked, srvVars, authVars, reqs, chanVars, storeVars,
                   nextId, config, cancelledAt, pgVars, fsVars, loopVars>>

\* ---------------------------------------------------- refreshTokenPeriodically
\* a wait until the expiry itself
RefreshTimeNoMargin(expiry, t) == expiry - t

\* t.Sub(u): the difference, held at the least or greatest Duration when it
\* does not fit
TimeSub(t, u) ==
    IF t - u < MinDuration THEN MinDuration
    ELSE IF t - u > MaxDuration THEN MaxDuration
    ELSE t - u

\* arithmetic on Durations wraps round at the width of the integer
Wrap(d) == ((d - MinDuration) % (2 ^ DurationBits)) + MinDuration

\* refreshTime := time.Until(expiry) - 5*time.Minute
RefreshTime(expiry, t) == Wrap(TimeSub(expiry, t) - Margin)

\* time.After(d) fires at once when d is not positive
FireAt(t, d) == t + Max(0, d)

\* a loop that returns after the first error
AfterFailureStop == "stopped"

\* where the loop goes after refreshToken returned an error: the error is
\* logged and the for loop goes round again
AfterFailure == "top"

\* the head of the for loop: under the shared lock, return when no token is
\* stored, else read its expiry; then compute refreshTime and arm time.After
LoopTop(a) ==
    /\ ~panicked
    /\ loopPc[a] = "top"
    /\ ~muWriter
    /\ IF authToken = NoToken
       THEN /\ loopPc' = [loopPc EXCEPT ![a] = "stopped"]
            /\ UNCHANGED <<loopExp, loopArmed, loopWake>>
       ELSE /\ loopPc' = [loopPc EXCEPT ![a] = "wait"]
            /\ loopExp' = [loopExp EXCEPT ![a] = authToken.expiry]
            /\ loopArmed' = [loopArmed EXCEPT ![a] = now]
            /\ loopWake' = [loopWake EXCEPT ![a] =
                                FireAt(now, RefreshTime(authToken.expiry, now))]
    /\ UNCHANGED <<now, panicked, srvVars, authVars, reqs, chanVars, storeVars,
                   nextId, config, cancelledAt, pgVars, fsVars, rdVars, loopCur, loopNew, failed, loopErr>>

\* a refreshToken that only checks that a token is stored
RefreshPrecheckTokenOnly(tok) ==
    IF tok = NoToken THEN "no token available to refresh" ELSE ""

\* the error refreshToken returns before it makes a token source: for no
\* stored token, and for a token without refresh token ("": none)
RefreshPrecheck(tok) ==
    IF tok = NoToken THEN "no token available to refresh"
    ELSE IF ~tok.refresh THEN "no refresh token available"
    ELSE ""

\* the cases of the select of the loop that are ready: "done" for
\* <-ctx.Done(), "timer" for <-time.After(refreshTime)
LoopReady(a) ==
    {c \in {"done"} : LoopCtxDone(a)} \cup {c \in {"timer"} : now >= loopWake[a]}

\* the select of the loop takes one of its ready cases.  case <-ctx.Done():
\* the loop returns.  case <-time.After(refreshTime): refreshToken is called;
\* under the shared lock it takes currentToken, and returns an error when
\* there is no token or no refresh token
LoopWake(a) ==
    /\ ~panicked
    /\ loopPc[a] = "wait"
    /\ \E c \in LoopReady(a) :
          IF c = "done"
          THEN /\ loopPc' = [loopPc EXCEPT ![a] = "stopped"]
               /\ UNCHANGED <<loopCur, failed, loopErr>>
          ELSE /\ ~muWriter
               /\ IF RefreshPrecheck(authToken) # ""
                  THEN /\ loopPc' = [loopPc EXCEPT ![a] = AfterFailure]
                       /\ failed' = [failed EXCEPT ![a] = TRUE]
                       /\ loopErr' = [loopErr EXCEPT ![a] = RefreshPrecheck(authToken)]
                       /\ UNCHANGED loopCur
                  ELSE /\ loopPc' = [loopPc EXCEPT ![a] = "token"]
                       /\ loopCur' = [loopCur EXCEPT ![a] = authToken]
                       /\ UNCHANGED <<failed, loopErr>>
    /\ UNCHANGED <<now, panicked, srvVars, authVars, reqs, chanVars, storeVars,
                   nextId, config, cancelledAt, pgVars, fsVars, rdVars, loopExp, loopArmed, loopWake, loopNew>>

\* a token source that takes any token it holds for valid
ValidAlways(tok, t) == TRUE

\* oauth2.Token.Valid: the token is not within 10 s of its expiry; on the clock's
\* grid (expiry and t whole ticks) expiry - 10 s < t is expiry <= t.  A token
\* with the zero time as its expiry does not expire
Valid(tok, t) == tok.expiry = ZeroTime \/ ~(tok.expiry <= t)

\* tokenSource.Token() of s.oauth2Cfg.TokenSource(ctx, currentToken): a token
\* that is still valid is returned as it is, without a request
TokenReuse(a) ==
    /\ ~panicked
    /\ loopPc[a] = "token"
    /\ Valid(loopCur[a], now)
    /\ loopNew' = [loopNew EXCEPT ![a] = loopCur[a]]
    /\ loopPc' = [loopPc EXCEPT ![a] = "lock"]
    /\ UNCHANGED <<now, panicked, srvVars, authVars, reqs, chanVars, storeVars,
                   nextId, config, cancelledAt, pgVars, fsVars, rdVars, loopExp, loopArmed, loopWake, loopCur, failed, loopErr>>

\* tokenSource.Token(): the token endpoint answers with a new token (the
\* refresh token is carried over when the answer has none)
TokenFetch(a, life) ==
    /\ ~panicked
    /\ loopPc[a] = "token"
    /\ ~Valid(loopCur[a], now)
    /\ nextId <= MaxTokens
    /\ loopNew' = [loopNew EXCEPT ![a] = [id |-> nextId, expiry |-> Expiry(now, life),
                                          refresh |-> TRUE]]
    /\ nextId' = nextId + 1
    /\ loopPc' = [loopPc EXCEPT ![a] = "lock"]
    /\ UNCHANGED <<now, panicked, srvVars, authVars, reqs, chanVars, storeVars,
                   rdVars, loopExp, loopArmed, loopWake, loopCur, failed, loopErr, config, cancelledAt, pgVars, fsVars>>

\* a refreshToken that drops the stored credential when the token source fails
TokenFetchFailClears(a) ==
    /\ ~panicked
    /\ loopPc[a] = "token"
    /\ ~Valid(loopCur[a], now)
    /\ loopPc' = [loopPc EXCEPT ![a] = AfterFailure]
    /\ failed' = [failed EXCEPT ![a] = TRUE]
    /\ loopErr' = [loopErr EXCEPT ![a] = "failed to refresh token"]
    /\ loopCur' = [loopCur EXCEPT ![a] = NoToken]
    /\ authToken' = NoToken
    /\ client' = 0
    /\ UNCHANGED <<now, panicked, srvVars, authVars, reqs, chanVars, muWriter, completed,
                   nextId, config, cancelledAt, pgVars, fsVars, rdVars, loopExp, loopArmed, loopWake, loopNew>>

\* tokenSource.Token() fails: refreshToken returns the wrapped error
TokenFetchFail(a) ==
    /\ ~panicked
    /\ loopPc[a] = "token"
    /\ ~Valid(loopCur[a], now)
    /\ loopPc' = [loopPc EXCEPT ![a] = AfterFailure]
    /\ failed' = [failed EXCEPT ![a] = TRUE]
    /\ loopErr' = [loopErr EXCEPT ![a] = "failed to refresh token"]
    /\ loopCur' = [loopCur EXCEPT ![a] = NoToken]
    /\ UNCHANGED <<now, panicked, srvVars, authVars, reqs, chanVars, storeVars,
                   nextId, config, cancelledAt, pgVars, fsVars, rdVars, loopExp, loopArmed, loopWake, loopNew>>

\* s.mu.Lock()
RefreshLock(a) ==
    /\ ~panicked
    /\ loopPc[a] = "lock"
    /\ ~muWriter
    /\ muReaders = 0
    /\ muWriter' = TRUE
    /\ loopPc' = [loopPc EXCEPT ![a] = "w1"]
    /\ UNCHANGED <<now, panicked, srvVars, authVars, reqs, chanVars, authToken,
                   client, completed, nextId, config, cancelledAt, pgVars, fsVars, rdVars, loopExp, loopArmed, loopWake,
                   loopCur, loopNew, failed, loopErr>>

\* s.authToken = newToken
RefreshWriteToken(a) ==
    /\ ~panicked
    /\ loopPc[a] = "w1"
    /\ authToken' = loopNew[a]
    /\ loopPc' = [loopPc EXCEPT ![a] = "w2"]
    /\ UNCHANGED <<now, panicked, srvVars, authVars, reqs, chanVars, client,
                   muWriter, completed, nextId, config, cancelledAt, pgVars, fsVars, rdVars, loopExp, loopArmed, loopWake,
                   loopCur, loopNew, failed, loopErr>>

\* a refreshToken that returns without s.mu.Unlock()
RefreshWriteClientKeepsLock(a) ==
    /\ ~panicked
    /\ loopPc[a] = "w2"
    /\ client' = Client(loopNew[a])
    /\ completed' = loopNew[a].id
    /\ loopPc' = [loopPc EXCEPT ![a] = "top"]
    /\ loopCur' = [loopCur EXCEPT ![a] = NoToken]
    /\ loopNew' = [loopNew EXCEPT ![a] = NoToken]
    /\ loopErr' = [loopErr EXCEPT ![a] = ""]
    /\ UNCHANGED <<now, panicked, srvVars, authVars, reqs, chanVars, authToken, muWriter,
                   nextId, config, cancelledAt, pgVars, fsVars, rdVars, loopExp, loopArmed, loopWake, failed>>

\* s.client = s.oauth2Cfg.Client(ctx, newToken); s.mu.Unlock(); return nil
RefreshWriteClient(a) ==
    /\ ~panicked
    /\ loopPc[a] = "w2"
    /\ client' = Client(loopNew[a])
    /\ muWriter' = FALSE
    /\ completed' = loopNew[a].id
    /\ loopPc' = [loopPc EXCEPT ![a] = "top"]
    /\ loopCur' = [loopCur EXCEPT ![a] = NoToken]
    /\ loopNew' = [loopNew EXCEPT ![a] = NoToken]
    /\ loopErr' = [loopErr EXCEPT ![a] = ""]
    /\ UNCHANGED <<now, panicked, srvVars, authVars, reqs, chanVars, authToken,
                   nextId, config, cancelledAt, pgVars, fsVars, rdVars, loopExp, loopArmed, loopWake, failed>>

\* ------------------------------------------------------------------ the clock
\* a loop that can run (at the head of the loop, or with its timer due) runs
\* before the clock moves on
Urgent(a) == loopPc[a] = "top" \/ (loopPc[a] = "wait" /\ now >= loopWake[a])

\* somebody waits: for a callback or the deadline, for the token endpoint, or
\* for time.After
Waiting(a) == pc[a] \in {"select", "exchange"} \/ loopPc[a] \in {"wait", "token"}

Tick ==
    /\ ~panicked
    /\ now < MaxTime
    /\ \E a \in Calls : Waiting(a)
    /\ \A a \in Calls : ~Urgent(a)
    /\ now' = now + 1
    /\ UNCHANGED <<panicked, srvVars, authVars, reqs, chanVars, storeVars, nextId, config, cancelledAt, pgVars, fsVars,
                   rdVars, loopVars>>

Next ==
    \/ \E a \in Calls : Initialize(a)
    \/ \E a \in Calls : SrvCheck(a)
    \/ \E a \in Calls : SrvBind(a)
    \/ \E a \in Calls : SrvBindFail(a)
    \/ \E a \in Calls : SrvSendErr(a)
    \/ \E a \in Calls : SrvServe(a)
    \/ \E a \in Calls : \E st \in {nonce[a], Forged}, code \in Codes : Request(a, st, code)
    \/ \E i \in 1..Len(reqs) : HandlerSendInvalid(i)
    \/ \E i \in 1..Len(reqs) : HandlerSendNoCode(i)
    \/ \E i \in 1..Len(reqs) : HandlerSendCode(i)
    \/ \E a \in Calls : SelectCode(a)
    \/ \E a \in Calls : SelectError(a)
    \/ \E a \in Calls : SelectBlock(a)
    \/ \E a \in Calls : SelectTimeout(a)
    \/ \E a \in Calls : SelectReturn(a)
    \/ \E a \in Calls, life \in Lifetimes, rt \in BOOLEAN : ExchangeOK(a, life, rt)
    \/ \E a \in Calls : ExchangeFail(a)
    \/ \E a \in Calls : AuthLock(a)
    \/ \E a \in Calls : AuthWriteToken(a)
    \/ \E a \in Calls : AuthWriteClient(a)
    \/ GetClientRLock
    \/ GetClientReturn
    \/ \E a \in Calls : LoopTop(a)
    \/ \E a \in Calls : LoopWake(a)
    \/ \E a \in Calls : TokenReuse(a)
    \/ \E a \in Calls, life \in Lifetimes : TokenFetch(a, life)
    \/ \E a \in Calls : TokenFetchFail(a)
    \/ \E a \in Calls : RefreshLock(a)
    \/ \E a \in Calls : RefreshWriteToken(a)
    \/ \E a \in Calls : RefreshWriteClient(a)
    \/ Tick

Spec == Init /\ [][Next]_vars

\* the service built from any configuration
SpecConfig == InitConfig /\ [][Next]_vars

\* the service with a provider whose token responses can lack expires_in
NextNoExpiry ==
    \/ Next
    \/ \E a \in Calls, rt \in BOOLEAN : ExchangeOK(a, NoExpiresIn, rt)
    \/ \E a \in Calls : TokenFetch(a, NoExpiresIn)

SpecNoExpiry == Init /\ [][NextNoExpiry]_vars

\* the service with a caller that can cancel the ctx it gave to Initialize
NextCancel ==
    \/ Next
    \/ \E a \in Calls : Cancel(a)

SpecCancel == Init /\ [][NextCancel]_vars

\* the service with one GetClient call followed, under a fair scheduler: a
\* goroutine that holds s.mu goes on to release it, and a call waiting in
\* RLock is let in when the writer unlocks
NextFair ==
    \/ Next
    \/ FollowedCall
    \/ FollowedRLock
    \/ FollowedReturn

Fairness ==
    /\ \A a \in Calls : WF_vars(AuthWriteToken(a)) /\ WF_vars(AuthWriteClient(a))
    /\ \A a \in Calls : WF_vars(RefreshWriteToken(a)) /\ WF_vars(RefreshWriteClient(a))
    /\ SF_vars(FollowedRLock)
    /\ WF_vars(FollowedReturn)

SpecFair == Init /\ [][NextFair]_vars /\ Fairness

\* ======================================================= the PostgreSQL tool
\* the handler returns (result, err)
PgReturn(c, content, err) ==
    /\ pgRes' = [pgRes EXCEPT ![c] = [content |-> content, err |-> err]]
    /\ pgPc' = [pgPc EXCEPT ![c] = "done"]

\* the handler is called and json.Unmarshal fills the input
PgCall(c, in) ==
    /\ pgPc[c] = "idle"
    /\ pgInput' = [pgInput EXCEPT ![c] = in]
    /\ pgPc' = [pgPc EXCEPT ![c] = "start"]
    /\ UNCHANGED <<oauthVars, fsVars, pgEnv, connPool, nextHandle, pgDb, pgRes>>

\* the caller has its answer: the call is over, and another can be made
PgCallOver(c) ==
    /\ pgPc[c] = "done"
    /\ pgPc' = [pgPc EXCEPT ![c] = "idle"]
    /\ pgInput' = [pgInput EXCEPT ![c] = NoInput]
    /\ pgDb' = [pgDb EXCEPT ![c] = 0]
    /\ pgRes' = [pgRes EXCEPT ![c] = NoResult]
    /\ UNCHANGED <<oauthVars, fsVars, pgEnv, connPool, nextHandle>>

\* the handler is called with arguments json.Unmarshal rejects
PgBadInput(c) ==
    /\ pgPc[c] = "idle"
    /\ PgReturn(c, "", "failed to unmarshal input")
    /\ UNCHANGED <<oauthVars, fsVars, pgEnv, connPool, nextHandle, pgInput, pgDb>>

\* list_databases is handled first: listAvailableDatabases, no connection
PgListDatabases(c) ==
    /\ pgPc[c] = "start"
    /\ pgInput[c].operation = "list_databases"
    /\ PgReturn(c, "Available databases", "")
    /\ UNCHANGED <<oauthVars, fsVars, pgEnv, connPool, nextHandle, pgInput, pgDb>>

\* every other operation needs a database
PgNoDatabase(c) ==
    /\ pgPc[c] = "start"
    /\ pgInput[c].operation # "list_databases"
    /\ pgInput[c].database = ""
    /\ PgReturn(c, "", "database identifier is required")
    /\ UNCHANGED <<oauthVars, fsVars, pgEnv, connPool, nextHandle, pgInput, pgDb>>

\* getConnection: db, exists := p.connPool[dbName], under the shared lock
PgGetConnection(c) ==
    /\ pgPc[c] = "start"
    /\ pgInput[c].operation # "list_databases"
    /\ pgInput[c].database # ""
    /\ pgDb' = [pgDb EXCEPT ![c] = connPool[pgInput[c].database]]
    /\ pgPc' = [pgPc EXCEPT ![c] =
                    IF connPool[pgInput[c].database] # 0 THEN "ping" ELSE "init"]
    /\ UNCHANGED <<oauthVars, fsVars, pgEnv, connPool, nextHandle, pgInput, pgRes>>

\* db.Ping(): a live connection is returned, a dead one is to be removed
PgPing(c, alive) ==
    /\ pgPc[c] = "ping"
    /\ pgPc' = [pgPc EXCEPT ![c] = IF alive THEN "switch" ELSE "delete"]
    /\ UNCHANGED <<oauthVars, fsVars, pgEnv, connPool, nextHandle, pgInput, pgDb, pgRes>>

\* a getConnection that leaves the dead entry in the pool
PgDeleteSkipped(c) ==
    /\ pgPc[c] = "delete"
    /\ pgPc' = [pgPc EXCEPT ![c] = "init"]
    /\ UNCHANGED <<oauthVars, fsVars, pgEnv, connPool, nextHandle, pgInput, pgDb, pgRes>>

\* delete(p.connPool, dbName), under the exclusive lock; db still holds the
\* handle that did not answer
PgDelete(c) ==
    /\ pgPc[c] = "delete"
    /\ connPool' = [connPool EXCEPT ![pgInput[c].database] = 0]
    /\ pgPc' = [pgPc EXCEPT ![c] = "init"]
    /\ UNCHANGED <<oauthVars, fsVars, pgEnv, nextHandle, pgInput, pgDb, pgRes>>

\* the position of database d among the databases of ok, in environment order
Rank(d, ok) ==
    Cardinality({i \in 1..Len(DBOrder) :
                    DBOrder[i] \in ok /\ \E j \in i..Len(DBOrder) : DBOrder[j] = d})

\* initializeConnections: every database of the environment is opened and
\* pinged; those of ok answer and are put in the pool, each a new handle; an
\* error of any of the others is returned, and getConnection wraps it
PgInitializeConnections(c, ok) ==
    /\ pgPc[c] = "init"
    /\ ok \subseteq pgEnv
    /\ nextHandle + Cardinality(ok) <= MaxHandles + 1
    /\ connPool' = [d \in DBNames |->
                        IF d \in ok THEN nextHandle + Rank(d, ok) - 1 ELSE connPool[d]]
    /\ nextHandle' = nextHandle + Cardinality(ok)
    /\ IF ok # pgEnv
       THEN PgReturn(c, "", "failed to initialize connections")
       ELSE /\ pgPc' = [pgPc EXCEPT ![c] = "read"]
            /\ UNCHANGED pgRes
    /\ UNCHANGED <<oauthVars, fsVars, pgEnv, pgInput, pgDb>>

\* getConnection: the pool is read again, under the shared lock
PgGetConnectionAgain(c) ==
    /\ pgPc[c] = "read"
    /\ pgDb' = [pgDb EXCEPT ![c] = connPool[pgInput[c].database]]
    /\ IF connPool[pgInput[c].database] = 0
       THEN PgReturn(c, "", "no connection found for database")
       ELSE /\ pgPc' = [pgPc EXCEPT ![c] = "switch"]
            /\ UNCHANGED pgRes
    /\ UNCHANGED <<oauthVars, fsVars, pgEnv, connPool, nextHandle, pgInput>>

\* what the switch on the operation returns, the statement on the database
\* succeeding (ok) or failing
PgOutcome(in, ok) ==
    IF in.operation \in {"query", "explain"}
    THEN IF in.query = "" THEN [content |-> "", err |-> "query is required"]
         ELSE IF ok THEN [content |-> "rows", err |-> ""]
         ELSE [content |-> "", err |-> "database error"]
    ELSE IF in.operation = "schema"
    THEN IF in.table = "" THEN [content |-> "", err |-> "table is required"]
         ELSE IF ok THEN [content |-> "schema", err |-> ""]
         ELSE [content |-> "", err |-> "database error"]
    ELSE [content |-> "", err |-> "unknown operation"]

\* switch input.Operation
PgSwitch(c, ok) ==
    /\ pgPc[c] = "switch"
    /\ PgReturn(c, PgOutcome(pgInput[c], ok).content, PgOutcome(pgInput[c], ok).err)
    /\ UNCHANGED <<oauthVars, fsVars, pgEnv, connPool, nextHandle, pgInput, pgDb>>

NextPg ==
    \/ \E c \in PgCalls, in \in PgInputs : PgCall(c, in)
    \/ \E c \in PgCalls : PgBadInput(c)
    \/ \E c \in PgCalls : PgListDatabases(c)
    \/ \E c \in PgCalls : PgNoDatabase(c)
    \/ \E c \in PgCalls : PgGetConnection(c)
    \/ \E c \in PgCalls, alive \in BOOLEAN : PgPing(c, alive)
    \/ \E c \in PgCalls : PgDelete(c)
    \/ \E c \in PgCalls : \E ok \in SUBSET pgEnv : PgInitializeConnections(c, ok)
    \/ \E c \in PgCalls : PgGetConnectionAgain(c)
    \/ \E c \in PgCalls, ok \in BOOLEAN : PgSwitch(c, ok)
    \/ \E c \in PgCalls : PgCallOver(c)

SpecPg == InitPg /\ [][NextPg]_vars

\* ====================================================== the file system tool
\* filepath.Clean of a rooted path: "." is dropped, ".." removes the element
\* before it and is dropped at the root
RECURSIVE CleanFrom(_, _)
CleanFrom(rest, acc) ==
    IF rest = <<>> THEN acc
    ELSE CleanFrom(Tail(rest),
                   IF Head(rest) = "." THEN acc
                   ELSE IF Head(rest) = ".."
                        THEN IF acc = <<>> THEN acc ELSE SubSeq(acc, 1, Len(acc) - 1)
                        ELSE Append(acc, Head(rest)))

Clean(path) == CleanFrom(path, <<>>)

\* filepath.Abs(input.Path): a relative path is joined to the working
\* directory; the result is cleaned
Abs(in) == IF in.rooted THEN Clean(in.path) ELSE Clean(Cwd \o in.path)

\* the number of leading elements two paths share
CommonLen(b, t) ==
    Cardinality({i \in 1..Len(b) : i <= Len(t) /\ \A j \in 1..i : b[j] = t[j]})

\* filepath.Rel(base, targ) of two clean rooted paths: ".." for every element
\* of base past the shared ones, then the rest of targ; "." when they are equal
Rel(b, t) ==
    LET k == CommonLen(b, t)
        r == [i \in 1..(Len(b) - k) |-> ".."] \o SubSeq(t, k + 1, Len(t))
    IN  IF r = <<>> THEN <<".">> ELSE r

\* isPathAllowed: rel does not start with "../" and is not ".."
isPathAllowed(path) ==
    LET rel == Rel(Clean(AllowedDirectory), Clean(path))
    IN  ~(Len(rel) >= 2 /\ rel[1] = "..") /\ rel # <<"..">>

\* filepath.Base
Base(path) == IF path = <<>> THEN "/" ELSE path[Len(path)]

\* what follows the last dot of a name
Ext(name) == IF name = "t.exe" THEN "exe" ELSE IF name = "t.txt" THEN "txt" ELSE ""

\* filepath.Match("*." + pat, name)
Match(pat, name) == Ext(name) = pat

\* a tool that blocks no name
isPathBlockedNever(path) == FALSE

\* isPathBlocked: the base name matches one of the blocked patterns
isPathBlocked(path) == \E pat \in BlockedPatterns : Match(pat, Base(path))

\* validatePath: the error it returns ("": nil)
validatePath(path) ==
    IF ~isPathAllowed(path) THEN "path is outside allowed directory"
    ELSE IF isPathBlocked(path) THEN "path matches blocked pattern"
    ELSE ""

\* what is at a path: the root is a directory
Kind(path) == IF path = <<>> THEN "dir" ELSE IF path \in FsNodes THEN fsTree[path] ELSE "none"

Parent(path) == SubSeq(path, 1, Len(path) - 1)

\* what exists below a path
Below(path) ==
    {q \in FsNodes : Len(q) > Len(path) /\ SubSeq(q, 1, Len(path)) = path
                        /\ fsTree[q] # "none"}

\* the handler returns: every return of it is (result, nil), an error is
\* returnErrorOutput(err), a result with IsError set
FsReturn(in, isError, touched, tree) ==
    /\ fsPc = "called"
    /\ fsPc' = "returned"
    /\ fsRes' = [isError |-> isError, err |-> ""]
    /\ fsTouched' = touched
    /\ fsTree' = tree
    /\ UNCHANGED <<oauthVars, pgVars, fsReq>>

\* the handler is called and json.Unmarshal fills the input
FsCall(in) ==
    /\ fsPc = "idle"
    /\ fsPc' = "called"
    /\ fsReq' = in
    /\ UNCHANGED <<oauthVars, pgVars, fsTree, fsRes, fsTouched>>

\* the caller has the result; the tool waits for its next call
FsCallOver ==
    /\ fsPc = "returned"
    /\ fsPc' = "idle"
    /\ fsReq' = NoReq
    /\ fsRes' = NoFsResult
    /\ fsTouched' = {}
    /\ UNCHANGED <<oauthVars, pgVars, fsTree>>

\* the handler is past its own check: the path is within the allowed directory
FsDispatch(in, op) == in.operation = op /\ isPathAllowed(Abs(in))

\* the handler rejects a path outside the allowed directory
FsDenied(in) ==
    /\ ~isPathAllowed(Abs(in))
    /\ FsReturn(in, TRUE, {}, fsTree)

\* default: unsupported operation
FsUnsupported(in) ==
    /\ isPathAllowed(Abs(in))
    /\ in.operation \notin FsOperations
    /\ FsReturn(in, TRUE, {}, fsTree)

\* the directories handleList or the walk of handleTree reads below path:
\* those reached through directories that pass validatePath
Walked(path) ==
    {d \in Below(path) :
        \A k \in (Len(path) + 1)..Len(d) :
            fsTree[SubSeq(d, 1, k)] = "dir" /\ validatePath(SubSeq(d, 1, k)) = ""}

\* handleList: validatePath, os.ReadDir, and the same for the directories
\* below when recursive (one that fails is skipped)
FsList(in) ==
    /\ FsDispatch(in, "list")
    /\ IF validatePath(Abs(in)) # "" THEN FsReturn(in, TRUE, {}, fsTree)
       ELSE FsReturn(in, Kind(Abs(in)) # "dir",
                     {Abs(in)} \cup (IF in.recursive /\ Kind(Abs(in)) = "dir"
                                      THEN Walked(Abs(in)) ELSE {}),
                     fsTree)

\* handleTree: validatePath, then the walk; a directory below that fails
\* validatePath ends it with an error
FsTreeOp(in) ==
    /\ FsDispatch(in, "tree")
    /\ IF validatePath(Abs(in)) # "" THEN FsReturn(in, TRUE, {}, fsTree)
       ELSE FsReturn(in,
                     \/ Kind(Abs(in)) # "dir"
                     \/ \E d \in Below(Abs(in)) :
                            /\ fsTree[d] = "dir"
                            /\ Parent(d) \in Walked(Abs(in)) \cup {Abs(in)}
                            /\ validatePath(d) # "",
                     {Abs(in)} \cup (IF Kind(Abs(in)) = "dir" THEN Walked(Abs(in)) ELSE {}),
                     fsTree)

\* handleRead: validatePath, os.ReadFile
FsRead(in) ==
    /\ FsDispatch(in, "read")
    /\ IF validatePath(Abs(in)) # "" THEN FsReturn(in, TRUE, {}, fsTree)
       ELSE FsReturn(in, Kind(Abs(in)) # "file", {Abs(in)}, fsTree)

\* os.WriteFile and os.Create make the file when its directory exists and the
\* path is not a directory
CanCreate(path) ==
    path \in FsNodes /\ Kind(Parent(path)) = "dir" /\ Kind(path) # "dir"

\* handleWrite: validatePath, os.WriteFile
FsWrite(in) ==
    /\ FsDispatch(in, "write")
    /\ IF validatePath(Abs(in)) # "" THEN FsReturn(in, TRUE, {}, fsTree)
       ELSE FsReturn(in, ~CanCreate(Abs(in)), {Abs(in)},
                     IF CanCreate(Abs(in))
                     THEN [fsTree EXCEPT ![Abs(in)] = "file"] ELSE fsTree)

\* handleCreate: validatePath, os.Create
FsCreate(in) ==
    /\ FsDispatch(in, "create")
    /\ IF validatePath(Abs(in)) # "" THEN FsReturn(in, TRUE, {}, fsTree)
       ELSE FsReturn(in, ~CanCreate(Abs(in)), {Abs(in)},
                     IF CanCreate(Abs(in))
                     THEN [fsTree EXCEPT ![Abs(in)] = "file"] ELSE fsTree)

\* os.Remove removes a file or an empty directory; the recursive delete walks
\* the subtree, validatePath on every path of it, then os.RemoveAll
CanDelete(path, recursive) ==
    /\ Kind(path) # "none"
    /\ path # <<>>
    /\ IF recursive THEN \A q \in Below(path) : validatePath(q) = ""
       ELSE Below(path) = {}

\* handleDelete
FsDelete(in) ==
    /\ FsDispatch(in, "delete")
    /\ IF validatePath(Abs(in)) # "" THEN FsReturn(in, TRUE, {}, fsTree)
       ELSE FsReturn(in, ~CanDelete(Abs(in), in.recursive),
                     {Abs(in)} \cup (IF in.recursive THEN Below(Abs(in)) ELSE {}),
                     IF CanDelete(Abs(in), in.recursive)
                     THEN [q \in FsNodes |->
                              IF q = Abs(in) \/ q \in Below(Abs(in)) THEN "none"
                              ELSE fsTree[q]]
                     ELSE fsTree)

\* os.MkdirAll makes the directory and those above it, unless one is a file
CanMkdir(path) ==
    path \in FsNodes /\ \A k \in 1..Len(path) : Kind(SubSeq(path, 1, k)) # "file"

\* handleMkdir: validatePath, os.MkdirAll
FsMkdir(in) ==
    /\ FsDispatch(in, "mkdir")
    /\ IF validatePath(Abs(in)) # "" THEN FsReturn(in, TRUE, {}, fsTree)
       ELSE FsReturn(in, ~CanMkdir(Abs(in)), {Abs(in)},
                     IF CanMkdir(Abs(in))
                     THEN [q \in FsNodes |->
                              IF \E k \in 1..Len(Abs(in)) : q = SubSeq(Abs(in), 1, k)
                              THEN "dir" ELSE fsTree[q]]
                     ELSE fsTree)

\* handleSearch: validatePath, filepath.Walk from the path
FsSearch(in) ==
    /\ FsDispatch(in, "search")
    /\ IF validatePath(Abs(in)) # "" THEN FsReturn(in, TRUE, {}, fsTree)
       ELSE FsReturn(in, Kind(Abs(in)) = "none",
                     {Abs(in)} \cup (IF in.recursive THEN Below(Abs(in))
                                      ELSE {q \in Below(Abs(in)) : Parent(q) = Abs(in)}),
                     fsTree)

NextFs ==
    \/ \E in \in FsInputs : FsCall(in)
    \/ FsDenied(fsReq)
    \/ FsUnsupported(fsReq)
    \/ FsList(fsReq)
    \/ FsTreeOp(fsReq)
    \/ FsRead(fsReq)
    \/ FsWrite(fsReq)
    \/ FsCreate(fsReq)
    \/ FsDelete(fsReq)
    \/ FsMkdir(fsReq)
    \/ FsSearch(fsReq)
    \/ FsCallOver

SpecFs == Init /\ [][NextFs]_vars

\* ===================================================================== claims
\* startLocalServer of call a has returned
Returned(a) == result[a] # "none" /\ pc[a] # "woken"

\* the requests made to the listener of call a
ReqsOf(a) == {i \in 1..Len(reqs) : reqs[i].call = a}

\* request i carries the nonce of its call / carries another state
Matching(i) == reqs[i].state = nonce[reqs[i].call]

\* request i is one that should deliver a code: the state matches, a code is there
Genuine(i) == Matching(i) /\ reqs[i].code # ""

\* the handler of request i waits to send on a channel
Sending(i) == reqs[i].pc \in {"sendInvalid", "sendNoCode", "sendCode"}

\* the channel the handler of request i sends on is full
ChanFull(i) ==
    IF reqs[i].pc = "sendCode"
    THEN Len(codeChan[reqs[i].call]) >= ChanCap
    ELSE Len(errorChan[reqs[i].call]) >= ChanCap

\* call a is past the exchange: it writes, or has written, the store
Writes(a) == pc[a] \in {"lock", "w1", "w2", "done"}

StoreEmpty == authToken = NoToken /\ client = 0

\* a writer is between taking s.mu and releasing it
MidUpdate == \E a \in Calls : pc[a] \in {"w1", "w2"} \/ loopPc[a] \in {"w1", "w2"}

\* ---------------------------------------------------------------------- C1
\* C1 as stated: whenever a callback with a wrong state was made during an
\* attempt, the attempt fails and the store is what it was before (empty).
C1_AsStated ==
    \A a \in Calls :
        (Returned(a) /\ \E i \in ReqsOf(a) : ~Matching(i))
            => result[a] # "code" /\ ~Writes(a) /\ StoreEmpty

\* C1, amended: a callback with a wrong state never delivers a code (it gets
\* no 200 and sends on the error channel only), so a code the listener returns
\* comes from a callback whose state matched; when the listener returns the
\* "invalid state" error, or when no callback with the right state and a code
\* was made, the attempt fails and the store stays empty.
C1_MismatchNeverWrites ==
    \A a \in Calls :
        /\ \A i \in ReqsOf(a) :
              ~Matching(i) => reqs[i].pc \in {"sendInvalid", "done"} /\ reqs[i].resp # 200
        /\ Len(codeChan[a]) + (IF result[a] = "code" THEN 1 ELSE 0)
              <= Cardinality({i \in ReqsOf(a) : Genuine(i) /\ reqs[i].pc = "done"})
        /\ (Returned(a) /\ (result[a] = "invalid state" \/ ~\E i \in ReqsOf(a) : Genuine(i)))
              => pc[a] = "failed" /\ StoreEmpty

\* the listener returned the error of a forged callback and the call failed
C1_Witness ==
    \E a \in Calls :
        /\ result[a] = "invalid state"
        /\ pc[a] = "failed"
        /\ \E i \in ReqsOf(a) : ~Matching(i) /\ reqs[i].code # "" /\ reqs[i].resp = 400

\* ---------------------------------------------------------------------- C2
\* C2 as stated: whenever a callback with the right state and a code was made
\* during an attempt, the attempt ends in success with a credential stored.
C2_AsStated ==
    \A a \in Calls :
        (pc[a] \in {"done", "failed"} /\ \E i \in ReqsOf(a) : Genuine(i))
            => pc[a] = "done" /\ authToken # NoToken

\* C2, amended: when the listener returns the code of such a callback, its
\* server is shut down, its goroutine has left Serve and the port is free; and
\* an attempt that returns success has received a code and leaves a non-nil
\* credential and the client built from it in the store.
C2_CodeThenClosedAndStored ==
    \A a \in Calls :
        /\ (Returned(a) /\ result[a] = "code") =>
              /\ inShutdown[a]
              /\ srvPc[a] = "exited"
              /\ portOwner = 0
              /\ \E i \in ReqsOf(a) : Genuine(i) /\ reqs[i].pc = "done" /\ reqs[i].resp = 200
        /\ pc[a] \in {"lock", "w1", "w2"} => token[a] # NoToken
        /\ pc[a] = "done" =>
              /\ result[a] = "code"
              /\ authToken # NoToken
              /\ client # 0

\* an attempt succeeded on the code of a valid callback
C2_Witness ==
    \E a \in Calls :
        /\ pc[a] = "done"
        /\ result[a] = "code"
        /\ authToken # NoToken
        /\ client = Client(authToken)
        /\ portOwner = 0

\* ---------------------------------------------------------------------- C3
\* C3: after an attempt ended in the timeout, with the store unchanged, a
\* listener started afterwards in the same process starts: its registration
\* and its bind succeed, so the call does not die in a panic.
C3_NewListenerStarts ==
    \A a, b \in Calls :
        (result[a] = "timeout" /\ pc[b] # "idle" /\ a # b)
            => /\ pc[a] = "failed"
               /\ StoreEmpty
               /\ pc[b] # "panic"
               /\ ~panicked

\* ---------------------------------------------------------------------- C4
\* C4: while any GetClient call holds the shared lock, the stored pair is
\* whole: the client is the one built from the stored token, never the old
\* client beside the new token (or the reverse), and no writer holds the lock.
C4_AtomicUpdate ==
    muReaders > 0 => client = Client(authToken) /\ ~muWriter

\* two GetClient calls are inside while an update waits for the lock
C4_Witness ==
    /\ muReaders >= 2
    /\ \E a \in Calls : pc[a] = "lock" \/ loopPc[a] = "lock"

\* ---------------------------------------------------------------------- C5
\* C5: a GetClient call that holds the shared lock (and so returns `client`)
\* sees the client of the latest completed update, and no update is between
\* its two assignments.
C5_LatestCompleted ==
    muReaders > 0 => client = completed /\ ~MidUpdate

\* a GetClient call is inside after a refresh has replaced the first token
C5_Witness ==
    /\ muReaders > 0
    /\ completed > 1
    /\ client = completed

C7_FirstAttemptAtMargin ==
    /\ [](\A a \in Calls :
            (loopPc[a] = "wait" /\ loopExp[a] - loopArmed[a] = Margin + 1)
                => loopWake[a] = loopArmed[a] + 1 /\ now <= loopArmed[a] + 1)
    /\ [][\A a \in Calls :
            (loopPc[a] = "wait" /\ loopPc'[a] # "wait"
                /\ loopExp[a] - loopArmed[a] = Margin + 1)
                => now = loopArmed[a] + 1]_vars

\* such a loop has made its attempt, at the tick expiry - margin
C7_Witness ==
    \E a \in Calls :
        /\ loopPc[a] = "token"
        /\ loopExp[a] - loopArmed[a] = Margin + 1
        /\ now = loopArmed[a] + 1
        /\ now = loopExp[a] - Margin

\* ---------------------------------------------------------------------- C8
\* the callbacks of call a are two: one with the right state and a code, one forged
TwoRacing(a) ==
    /\ Cardinality(ReqsOf(a)) = 2
    /\ \E i, j \in ReqsOf(a) : Genuine(i) /\ ~Matching(j)

\* C8: with one genuine and one forged callback, in either order, no handler
\* finds its channel full; a listener that returns on a callback returns the
\* code or the "invalid state" error; and once both handlers are through, the
\* message of the other one is left in its channel, unread.
C8_RaceOfTwo ==
    \A a \in Calls :
        TwoRacing(a) =>
            /\ \A i \in ReqsOf(a) : Sending(i) => ~ChanFull(i)
            /\ (Returned(a) /\ result[a] # "timeout")
                  => result[a] \in {"code", "invalid state"}
            /\ (Returned(a) /\ result[a] # "timeout"
                    /\ \A i \in ReqsOf(a) : reqs[i].pc = "done")
                  => Len(codeChan[a]) + Len(errorChan[a]) = 1

\* the forged callback came first, the genuine one won, the error is dropped
C8_Witness ==
    \E a \in Calls :
        /\ TwoRacing(a)
        /\ ~Matching(1)
        /\ result[a] = "code"
        /\ \A i \in ReqsOf(a) : reqs[i].pc = "done"
        /\ errorChan[a] = <<"invalid state">>

C10_NoSendStuck ==
    /\ \A i \in 1..Len(reqs) :
          ~(Sending(i) /\ ChanFull(i) /\ Returned(reqs[i].call))
    /\ \A a \in Calls :
          ~(srvPc[a] = "sendErr" /\ Len(errorChan[a]) >= ChanCap /\ Returned(a))

\* --------------------------------------------------------------------- C11
\* C11: every listener that was started, after or beside another one of the
\* same process, has registered its handler without a collision: its call did
\* not die in a panic, and the handler that serves its requests is its own.
C11_PrivateMux ==
    \A b \in Calls :
        pc[b] # "idle" =>
            /\ pc[b] # "panic"
            /\ ~panicked
            /\ srvPc[b] = "serving" => muxOwner = b

\* --------------------------------------------------------------------- C12
\* an authorization attempt of call a is under way
Live(a) == pc[a] \in {"enter", "select", "woken", "exchange", "lock", "w1", "w2"}

\* the server goroutine of call a is on its way to serve, or serves
Listening(a) == srvPc[a] \in {"check", "bind", "track", "sendErr", "serving"}

\* the refresh loop started by call a runs
LoopRuns(a) == loopPc[a] \notin {"off", "stopped"}

\* C12: whatever Initialize calls are made on the instance, and however they
\* interleave, at most one attempt is live, at most one callback listener
\* waits, and at most one refresh loop runs.
C12_OneLiveAttempt ==
    /\ Cardinality({a \in Calls : Live(a)}) <= 1
    /\ Cardinality({a \in Calls : Listening(a)}) <= 1
    /\ Cardinality({a \in Calls : LoopRuns(a)}) <= 1

\* a second Initialize was called while the listener of the first one waited
C12_Witness ==
    \E a, b \in Calls : pc[a] = "select" /\ Listening(a) /\ pc[b] = "panic"

\* --------------------------------------------------------------------- C13
\* C13: a service whose configuration has an empty field does nothing on the
\* network: no Initialize call of it gets as far as registering a handler,
\* starting a listener, waiting for a callback or asking for a token.
C13_ConfigChecked ==
    config # {} =>
        /\ muxOwner = 0
        /\ portOwner = 0
        /\ nextId = 1
        /\ \A a \in Calls : srvPc[a] = "none" /\ pc[a] \in {"idle", "failed"}

C15_FailureLeavesNothing ==
    \A a \in Calls :
        /\ (Returned(a) /\ result[a] # "code") => pc[a] = "failed"
        /\ pc[a] = "failed" => StoreEmpty /\ loopPc[a] = "off"
        /\ loopPc[a] # "off" =>
              /\ pc[a] = "done"
              /\ result[a] = "code"
              /\ authToken # NoToken
              /\ client # 0

\* the listener returned a code and the exchange of it failed
C15_Witness ==
    \E a \in Calls :
        /\ pc[a] = "failed"
        /\ result[a] = "code"
        /\ StoreEmpty
        /\ loopPc[a] = "off"

\* --------------------------------------------------------------------- C16
\* C16: the nonce of an attempt differs from the nonce of every attempt
\* started before it.
C16_FreshNonce ==
    \A a, b \in Calls :
        (a < b /\ pc[a] # "idle" /\ pc[b] # "idle") => nonce[a] # nonce[b]

\* --------------------------------------------------------------------- C17
\* C17: a call of the handler with an operation that is none of query,
\* explain, schema and list_databases, and with a database named, returns a
\* result that is not empty, and no error.
C17_InvalidOperationResult ==
    \A c \in PgCalls :
        (pgPc[c] = "done" /\ pgInput[c].operation \notin Operations
            /\ pgInput[c].database # "")
            => pgRes[c].content # "" /\ pgRes[c].err = ""

\* --------------------------------------------------------------------- C18
\* the path resolves outside the allowed directory: the allowed directory is
\* not the path itself or one of the directories above it
OutsideAllowed(path) ==
    ~(Len(path) >= Len(AllowedDirectory)
        /\ SubSeq(path, 1, Len(AllowedDirectory)) = AllowedDirectory)

\* the base name of the path ends in a blocked extension
BlockedName(path) == path # <<>> /\ Ext(path[Len(path)]) \in BlockedPatterns

\* the operations C18 names
GuardedOps == {"list", "read", "write", "create", "delete", "mkdir", "search"}

\* a call asks for one of those operations on a path that is to be refused
Refused(in) ==
    /\ in.operation \in GuardedOps
    /\ OutsideAllowed(Abs(in)) \/ BlockedName(Abs(in))

ErrorDelivered(a, msg) ==
    /\ codeChan'[a] = codeChan[a]
    /\ \/ errorChan'[a] = Append(errorChan[a], msg) /\ result'[a] = result[a]
       \/ /\ errorChan'[a] = errorChan[a]
          /\ pc[a] = "select" /\ pc'[a] = "woken" /\ result'[a] = msg

\* the step hands the code to call a: into the buffer of codeChan, or straight
\* to the select parked on it; errorChan is left alone
CodeDelivered(a, code) ==
    /\ errorChan'[a] = errorChan[a]
    /\ \/ codeChan'[a] = Append(codeChan[a], code) /\ result'[a] = result[a]
       \/ /\ codeChan'[a] = codeChan[a]
          /\ pc[a] = "select" /\ pc'[a] = "woken" /\ result'[a] = "code"

\* the handler of request i makes its send in this step
Sends(i) == reqs[i].pc # "done" /\ reqs'[i].pc = "done"

\* a message comes to codeChan / errorChan of call a in this step
CodeArrives(a) ==
    \/ Len(codeChan'[a]) > Len(codeChan[a])
    \/ pc[a] = "select" /\ pc'[a] = "woken" /\ result'[a] = "code"
ErrorArrives(a) ==
    \/ Len(errorChan'[a]) > Len(errorChan[a])
    \/ pc[a] = "select" /\ pc'[a] = "woken" /\ result'[a] \notin {"code", "timeout"}

\* the response of request i so far: the 200 page is written before the code
\* is sent, the 400 after the error was sent
ResponseSoFar(i) ==
    IF Genuine(i) THEN 200
    ELSE IF reqs[i].pc = "done" THEN 400
    ELSE 0

\* what the send of request i is, by the order of the checks
SendOf(i) ==
    IF ~Matching(i) THEN ErrorDelivered(reqs[i].call, "invalid state")
    ELSE IF reqs[i].code = "" THEN ErrorDelivered(reqs[i].call, "no code")
    ELSE CodeDelivered(reqs[i].call, reqs[i].code)

\* C19: the handler checks the state first and the code second: a request
\* with another state is answered 400 and sends "invalid state" on errorChan
\* whether it has a code or not, one with the state and no code is answered
\* 400 and sends "no code received" on errorChan, one with both is answered
\* 200 and sends its code on codeChan.  A handler sends once, one message, on
\* one channel; a handler that has sent does nothing more; a code comes to
\* codeChan only from a request with the right state, and an error comes to
\* errorChan only from a handler or from the server's start.
C19_DecisionOrder ==
    /\ [](\A i \in 1..Len(reqs) : reqs[i].resp = ResponseSoFar(i))
    /\ [][\A i \in 1..Len(reqs) :
             /\ Sends(i) => SendOf(i) /\ \A j \in 1..Len(reqs) : Sends(j) => j = i
             /\ reqs[i].pc = "done" => reqs'[i] = reqs[i]]_vars
    /\ [][\A a \in Calls :
             /\ CodeArrives(a) => \E i \in ReqsOf(a) : Sends(i) /\ Genuine(i)
             /\ ErrorArrives(a) =>
                   \/ \E i \in ReqsOf(a) : Sends(i) /\ ~Genuine(i)
                   \/ srvPc[a] = "sendErr" /\ srvPc'[a] # "sendErr"]_vars

\* a forged request that had a code was answered 400 and its "invalid state"
\* waits in errorChan, and the genuine request was answered 200 and its code
\* was taken by the select
C19_Witness ==
    /\ Len(reqs) = 2
    /\ ~Matching(1) /\ reqs[1].code # "" /\ reqs[1].pc = "done" /\ reqs[1].resp = 400
    /\ Genuine(2) /\ reqs[2].pc = "done" /\ reqs[2].resp = 200
    /\ reqs[1].call = reqs[2].call
    /\ errorChan[reqs[1].call] = <<"invalid state">>
    /\ codeChan[reqs[1].call] = <<>>
    /\ result[reqs[1].call] = "code"

\* --------------------------------------------------------------------- C20
\* C20 as stated: when the code was the first of the three events, the
\* listener returns the code, whatever else became ready before its select
\* statement ran.
C20_AsStated ==
    \A a \in Calls : (Returned(a) /\ first[a] = "code") => result[a] = "code"

\* C20: a listener that waits in its select has found both channels empty, and
\* the first event that comes then (a code, an error, the deadline) is its
\* result.  A listener that finds messages waiting when it reaches the select
\* statement returns one of them, not always the first, and never the timeout:
\* the deadline runs from the moment the select statement is reached.
C20_FirstWhileParked ==
    /\ [](\A a \in Calls :
             /\ pc[a] = "select" =>
                   first[a] = "none" /\ codeChan[a] = <<>> /\ errorChan[a] = <<>>
             /\ Returned(a) =>
                   \/ result[a] = first[a]
                   \/ result[a] # "timeout" /\ first[a] \notin {"none", "timeout"})
    /\ [][\A a \in Calls :
             (pc[a] = "select" /\ first'[a] # first[a]) =>
                 result'[a] = first'[a] /\ pc'[a] = "woken"]_vars

\* the code came first and the listener returned it, with an error that came
\* after it left in errorChan
C20_Witness ==
    \E a \in Calls :
        /\ Returned(a)
        /\ first[a] = "code"
        /\ result[a] = "code"
        /\ errorChan[a] # <<>>

\* --------------------------------------------------------------------- C21
\* C21: a loop that waits on its timer has read the stored expiry and armed
\* the timer for the moment it read it plus expiry - now - margin; when that is
\* zero or less (the credential within the margin, expired, or with the zero
\* time as its expiry) the timer is due at once.
C21_WakeFromExpiry ==
    \A a \in Calls :
        loopPc[a] = "wait" =>
            loopWake[a] = loopArmed[a] + Max(0, loopExp[a] - loopArmed[a] - Margin)

\* --------------------------------------------------------------------- C22
\* C22: the credential a successful refresh attempt writes to the store is a
\* new one, got from the token endpoint with the stored refresh token; its
\* expiry is later than that of the credential it replaces, and the wait the
\* loop computes from it is positive.
C22_RefreshRenews ==
    \A a \in Calls :
        loopPc[a] = "w2" =>
            /\ authToken = loopNew[a]
            /\ loopCur[a].refresh
            /\ loopNew[a].id # loopCur[a].id
            /\ loopNew[a].expiry > loopCur[a].expiry
            /\ RefreshTime(loopNew[a].expiry, now) > 0

\* --------------------------------------------------------------------- C23
\* the refresh attempt of loop a ends in an error in this step
AttemptFails(a) == loopPc[a] \in {"wait", "token"} /\ loopPc'[a] = "top"

\* C23: a refresh attempt that fails leaves the store as it was before the
\* attempt: while the attempt asks the token source, the store still holds the
\* credential the attempt started from and its client, and the step in which
\* the attempt fails changes neither authToken nor client, so that GetClient
\* goes on returning the client of the old credential.
C23_FailureKeepsStore ==
    /\ [](\A a \in Calls :
             loopPc[a] = "token" =>
                 authToken = loopCur[a] /\ client = Client(loopCur[a]))
    /\ [][\A a \in Calls :
             AttemptFails(a) =>
                 /\ authToken' = authToken
                 /\ client' = client
                 /\ completed' = completed
                 /\ failed'[a]]_vars

\* the token endpoint failed for an expired credential, the store still holds
\* it, and a GetClient call is reading its client
C23_Witness ==
    \E a \in Calls :
        /\ failed[a]
        /\ loopPc[a] = "top"
        /\ authToken.refresh
        /\ ~Valid(authToken, now)
        /\ client = Client(authToken)
        /\ muReaders > 0

\* --------------------------------------------------------------------- C24
\* refreshToken is called by loop a in this step
RefreshCalled(a) == loopPc[a] = "wait" /\ loopPc'[a] # "wait"

\* the step leaves the store and the token endpoint alone
StoreUntouched ==
    /\ authToken' = authToken
    /\ client' = client
    /\ completed' = completed
    /\ muWriter' = muWriter
    /\ nextId' = nextId

\* C24: refreshToken called with a stored credential that has no refresh
\* token returns "no refresh token available", makes no token source (the
\* token endpoint is not asked) and leaves the store as it is; called with no
\* credential stored it returns "no token available to refresh".  A token
\* source is only ever asked with a credential that has a refresh token.
C24_NoRefreshToken ==
    /\ [](\A a \in Calls : loopPc[a] = "token" => loopCur[a].refresh)
    /\ [][\A a \in Calls :
             RefreshCalled(a) =>
                 /\ (authToken # NoToken /\ ~authToken.refresh) =>
                        /\ loopErr'[a] = "no refresh token available"
                        /\ loopPc'[a] = AfterFailure
                        /\ StoreUntouched
                 /\ authToken = NoToken =>
                        /\ loopErr'[a] = "no token available to refresh"
                        /\ loopPc'[a] = AfterFailure
                        /\ StoreUntouched]_vars

\* the refresh attempt for a credential without refresh token has returned
\* its error, and the store holds that credential and its client
C24_Witness ==
    \E a \in Calls :
        /\ loopErr[a] = "no refresh token available"
        /\ loopPc[a] = AfterFailure
        /\ authToken # NoToken
        /\ ~authToken.refresh
        /\ client = Client(authToken)
        /\ nextId = authToken.id + 1

\* --------------------------------------------------------------------- C25
\* C25: the refresh loop returns only from its select, when its context is
\* done while it waits for the timer, and from the head of an iteration, when
\* no credential is stored; it makes no refresh attempt and no store write in
\* the step in which it returns.  The loop Initialize starts has
\* context.Background() for its context, which is never done, and it starts
\* after a credential was stored, so it never returns: cancelling the ctx given
\* to Initialize does not stop it.
C25_LoopOutlivesCancel ==
    /\ [](\A a \in Calls :
             /\ loopPc[a] # "stopped"
             /\ loopPc[a] # "off" => authToken # NoToken)
    /\ [][\A a \in Calls :
             (loopPc[a] # "stopped" /\ loopPc'[a] = "stopped") =>
                 /\ loopPc[a] \in {"top", "wait"}
                 /\ loopPc[a] = "top" => authToken = NoToken
                 /\ loopPc[a] = "wait" => LoopCtxDone(a)
                 /\ StoreUntouched]_vars

\* the ctx given to Initialize was cancelled, and the loop has armed its timer
\* in a later tick and is in the store write of a refresh attempt
C25_Witness ==
    \E a \in Calls :
        /\ Done(a)
        /\ loopArmed[a] > cancelledAt[a]
        /\ loopPc[a] = "w2"

\* --------------------------------------------------------------------- C26
\* call c leaves position p of getConnection in this step
PgLeaves(c, p) == pgPc[c] = p /\ pgPc'[c] # p

\* call c returns the error err in this step
PgFails(c, err) == pgPc'[c] = "done" /\ pgRes'[c] = [content |-> "", err |-> err]

\* C26: getConnection returns the handle it found in the pool when that
\* handle answers the Ping.  When it does not answer, the entry is removed and
\* the connections are initialized again from the environment; an error of
\* that is returned, and otherwise the pool is read again: the entry found
\* then is returned, which is not the handle that failed the Ping, and when
\* there is none the error "no connection found" is returned.
C26_GetConnection ==
    /\ [](\A c \in PgCalls : pgPc[c] = "switch" => pgDb[c] # 0)
    /\ [][\A c \in PgCalls :
             /\ PgLeaves(c, "ping") =>
                   \/ pgPc'[c] = "switch" /\ pgDb'[c] = pgDb[c]
                   \/ pgPc'[c] = "delete"
             /\ PgLeaves(c, "delete") =>
                   pgPc'[c] = "init" /\ connPool'[pgInput[c].database] = 0
             /\ PgLeaves(c, "init") =>
                   \/ pgPc'[c] = "read"
                   \/ PgFails(c, "failed to initialize connections")
             /\ PgLeaves(c, "read") =>
                   IF connPool[pgInput[c].database] = 0
                   THEN PgFails(c, "no connection found for database")
                   ELSE /\ pgPc'[c] = "switch"
                        /\ pgDb'[c] = connPool[pgInput[c].database]
                        /\ pgDb'[c] # pgDb[c]]_vars

\* with one database in the environment, a call holds the second handle made
\* for it: the first did not answer a Ping and its entry was removed
C26_Witness ==
    \E c \in PgCalls :
        /\ pgEnv = {"test_db"}
        /\ pgPc[c] = "switch"
        /\ pgInput[c].database = "test_db"
        /\ pgDb[c] = 2
        /\ connPool["test_db"] = 2

\* --------------------------------------------------------------------- C27
\* a goroutine waits for the network or for the callback channels
WaitsOutside(a) ==
    \/ pc[a] \in {"enter", "select", "woken", "exchange"}
    \/ loopPc[a] \in {"wait", "token"}

\* the goroutines that hold s.mu exclusively
Writers ==
    {a \in Calls : pc[a] \in {"w1", "w2"}} \cup {a \in Calls : loopPc[a] \in {"w1", "w2"}}

\* C27: s.mu is held exclusively only between Lock() and Unlock() of a store
\* update, by one goroutine, which then waits for nothing (not for the code
\* exchange, the token endpoint, the callback channels or a timer), and every
\* goroutine that took the lock releases it; so, with a fair scheduler, a
\* GetClient call that has reached RLock() returns, whatever authentication
\* or refresh is in progress (unless the process dies first).
C27_GetClientReturns ==
    /\ [](/\ muWriter <=> Writers # {}
          /\ \A a \in Calls :
                /\ WaitsOutside(a) => a \notin Writers
                /\ ~(pc[a] \in {"w1", "w2"} /\ loopPc[a] \in {"w1", "w2"})
          /\ muReaders >= Followed)
    /\ [](muWriter => <>(~muWriter \/ panicked))
    /\ [](rdPc # "idle" => <>(rdPc = "idle" \/ panicked))

\* a GetClient call waits in RLock() while a refresh holds the lock between
\* its two assignments
C27_Witness ==
    \E a \in Calls : rdPc = "rlock" /\ muWriter /\ loopPc[a] = "w2"

\* --------------------------------------------------------------------- C28
\* a reader can look at the store: no writer holds s.mu
Observable == ~muWriter

\* C28: whenever a reader can look at the store, client is nil exactly when
\* authToken is nil; a field of the store that is set never goes back to nil;
\* GetClient returns nil while no Initialize has succeeded and a client at all
\* times after one has.
C28_ClientWithToken ==
    /\ [](/\ Observable => (client = 0 <=> authToken = NoToken)
          /\ muReaders > 0 => Observable
          /\ (Observable /\ \A a \in Calls : pc[a] # "done") => client = 0
          /\ (\E a \in Calls : pc[a] = "done") => client # 0 /\ authToken # NoToken)
    /\ [][/\ authToken # NoToken => authToken' # NoToken
          /\ client # 0 => client' # 0]_vars

\* a GetClient call reads the client of the credential a refresh has stored
C28_Witness ==
    /\ muReaders > 0
    /\ authToken # NoToken
    /\ completed > 1
    /\ client = Client(authToken)
    /\ client = completed

\* --------------------------------------------------------------------- C29
\* the loop of call a has been through an iteration before: it has read an
\* expiry and made a refresh attempt
Attempted(a) == loopExp[a] # 0

\* C29: when the loop arms its timer after a refresh attempt, it arms it for a
\* later time: the next attempt does not follow at once.
C29_PositiveWait ==
    [][\A a \in Calls :
          (Attempted(a) /\ loopPc[a] = "top" /\ loopPc'[a] = "wait")
              => loopWake'[a] > now]_vars

\* --------------------------------------------------------------------- C30
\* C30: the delete of getConnection removes an entry of the pool only when the
\* entry still holds the handle that failed the caller's Ping: a handle that
\* another caller has stored in the meantime is left in the pool.
C30_DeleteOnlyDead ==
    [][\A c \in PgCalls :
          PgLeaves(c, "delete") =>
              \/ connPool[pgInput[c].database] = pgDb[c]
              \/ connPool'[pgInput[c].database] = connPool[pgInput[c].database]]_vars

====
